---- MODULE Spec2Model ----
(***************************************************************************)
(* Model of .autoflow/migrate_to_yaml.py: the three Markdown extractors    *)
(* (parse_sprints_md, parse_task_md, parse_completed_tasks_md) and the     *)
(* orchestrator main().                                                    *)
(*                                                                         *)
(* Documents are sequences of lines.  A line whose characters decide the   *)
(* result (a numbered deliverable, a checklist line, a bullet, a blocker   *)
(* line) carries its text as a sequence of one-character strings; the      *)
(* other lines carry the groups the regular expressions capture.           *)
(***************************************************************************)
EXTENDS Naturals, Sequences, FiniteSets

VARIABLES
    fs,       \* the files under .autoflow/, by path
    pc,       \* the statement about to run
    pipe,     \* main(): the pipeline (1..3) that statement belongs to
    run,      \* the number of the current run of the script
    clock,    \* datetime.now(), as a counter
    data,     \* sprints_data / task_data / completed_data: an extractor's result
    exc,      \* main(): the exception being handled, if any
    out,      \* the lines printed by the current run
    trace,    \* per run and pipeline: what the run did (observer)
    first     \* the destination files as the first run left them (observer)

vars == <<fs, pc, pipe, run, clock, data, exc, out, trace, first>>

----------------------------------------------------------------------------
(* Bounds of the model. *)

MaxLines == 4
MaxDigits == 3
MaxSpaces == 2
MaxDeliverables == 2
MaxBullets == 2
MaxSectionLines == 3
MaxRuns == 2

----------------------------------------------------------------------------
(* Strings as sequences of characters, and the str methods the code uses. *)

Whitespace == {" ", "\t"}

\* s[n:]
SliceFrom(s, n) == SubSeq(s, n + 1, Len(s))

\* s[:n]
SliceTo(s, n) == SubSeq(s, 1, IF n < Len(s) THEN n ELSE Len(s))

RECURSIVE LStrip(_)
LStrip(s) ==
    IF s # <<>> /\ Head(s) \in Whitespace THEN LStrip(Tail(s)) ELSE s

RECURSIVE RStrip(_)
RStrip(s) ==
    IF s # <<>> /\ s[Len(s)] \in Whitespace
    THEN RStrip(SubSeq(s, 1, Len(s) - 1))
    ELSE s

\* str.strip()
Strip(s) == RStrip(LStrip(s))

\* s.startswith(p)
StartsWith(s, p) == Len(s) >= Len(p) /\ SubSeq(s, 1, Len(p)) = p

\* c in s
Contains(s, c) == \E i \in 1..Len(s) : s[i] = c

\* the index of the first occurrence of p in s, 0 when there is none
Find(s, p) ==
    LET hits == {i \in 1..Len(s) : StartsWith(SliceFrom(s, i - 1), p)}
    IN  IF hits = {} THEN 0 ELSE CHOOSE i \in hits : \A j \in hits : i <= j

Min(S) == CHOOSE x \in S : \A y \in S : x <= y

\* the sequences over S of length lo..hi
SeqsOf(S, lo, hi) == UNION {[1..n -> S] : n \in lo..hi}

RECURSIVE Repeat(_, _)
Repeat(c, n) == IF n = 0 THEN <<>> ELSE <<c>> \o Repeat(c, n - 1)

Digits == {"0", "1", "2", "3", "4", "5", "6", "7", "8", "9"}

----------------------------------------------------------------------------
(* parse_sprints_md.                                                       *)
(*                                                                         *)
(* Lines of SPRINTS.md:                                                    *)
(*   "sprint"        a header block the five-element sprint_pattern        *)
(*                   matches, with the groups id and status;               *)
(*   "sprint_loose"  a line holding '## Sprint <digits>:' that is not the  *)
(*                   start of such a block;                                *)
(*   "task"          a line the task_pattern matches, with its id;         *)
(*   "deliverables"  '### Deliverables', a blank line and the run of       *)
(*                   numbered lines after it, each line as characters;     *)
(*   "text"          any other line.                                       *)

SprintHeader(id, status) == [kind |-> "sprint", id |-> id, status |-> status]
LooseSprintHeader == [kind |-> "sprint_loose"]
TaskLine(id) == [kind |-> "task", id |-> id]
DeliverablesBlock(lines) == [kind |-> "deliverables", lines |-> lines]
TextLine == [kind |-> "text"]

Indices(doc) == [i \in 1..Len(doc) |-> i]

\* re.finditer(sprint_pattern, sprints_md): the matches, in document order
sprint_matches(sprints_md) ==
    SelectSeq(Indices(sprints_md), LAMBDA i : sprints_md[i].kind = "sprint")

\* a faulty variant: only a header the strict pattern matches ends a section
next_sprint_strict(sprints_md, m) ==
    LET later == {j \in (m + 1)..Len(sprints_md) : sprints_md[j].kind = "sprint"}
    IN  IF later = {} THEN 0 ELSE Min(later)

\* re.search(r'## Sprint \d+:', sprints_md[match.end():]): the line of the
\* first occurrence after the match at line m, 0 for no occurrence
next_sprint(sprints_md, m) ==
    LET later == {j \in (m + 1)..Len(sprints_md) :
                     sprints_md[j].kind \in {"sprint", "sprint_loose"}}
    IN  IF later = {} THEN 0 ELSE Min(later)

\* the line after the last line of the section of the match at line m
sprint_section_end(sprints_md, m) ==
    IF next_sprint(sprints_md, m) # 0
    THEN next_sprint(sprints_md, m)
    ELSE Len(sprints_md) + 1

\* sprints_md[sprint_section_start:sprint_section_end]
sprint_content(sprints_md, m) ==
    SubSeq(sprints_md, m, sprint_section_end(sprints_md, m) - 1)

\* line.strip()[3:].strip()
deliverable_of(line) == Strip(SliceFrom(Strip(line), 3))

\* the deliverables of a section: the numbered lines of its first block
sprint_deliverables(content) ==
    LET blocks == SelectSeq(content, LAMBDA l : l.kind = "deliverables")
    IN  IF blocks = <<>>
        THEN <<>>
        ELSE LET kept == SelectSeq(Head(blocks).lines,
                                   LAMBDA line : Strip(line) # <<>>)
             IN  [i \in 1..Len(kept) |-> deliverable_of(kept[i])]

\* the tasks of a section, one per task_pattern match
sprint_tasks(content) ==
    LET found == SelectSeq(content, LAMBDA l : l.kind = "task")
    IN  [i \in 1..Len(found) |-> [id |-> found[i].id]]

CompletedDate == "2025-10-04"

\* the record built for the match at line m
sprint_data(sprints_md, m) ==
    [id           |-> sprints_md[m].id,
     status       |-> sprints_md[m].status,
     deliverables |-> sprint_deliverables(sprint_content(sprints_md, m)),
     tasks        |-> sprint_tasks(sprint_content(sprints_md, m)),
     completed    |-> IF sprints_md[m].status = "COMPLETE"
                      THEN <<CompletedDate>> ELSE <<>>]

DefaultCurrentSprint == 1

\* a faulty variant: the last ACTIVE sprint instead of the first
current_sprint_last(sprints) ==
    LET active == SelectSeq(sprints, LAMBDA s : s.status = "ACTIVE")
    IN  IF active = <<>> THEN DefaultCurrentSprint ELSE active[Len(active)].id

\* next((s['id'] for s in sprints if s['status'] == 'ACTIVE'), 1)
current_sprint(sprints) ==
    LET active == SelectSeq(sprints, LAMBDA s : s.status = "ACTIVE")
    IN  IF active = <<>> THEN DefaultCurrentSprint ELSE Head(active).id

parse_sprints_md(sprints_md, now) ==
    LET ms      == sprint_matches(sprints_md)
        sprints == [k \in 1..Len(ms) |-> sprint_data(sprints_md, ms[k])]
    IN  [project |-> [current_sprint |-> current_sprint(sprints),
                      last_updated   |-> now],
         sprints |-> sprints]

----------------------------------------------------------------------------
(* Python values of the records: None, and a str.                          *)

PyNone == <<>>
PyStr(s) == <<s>>

----------------------------------------------------------------------------
(* parse_task_md.                                                          *)
(*                                                                         *)
(* Lines of TASK.md:                                                       *)
(*   "task"        a header block the six-group task_pattern matches;      *)
(*   "task_loose"  a line holding '### Task <d>.<d>:' that is not the      *)
(*                 start of such a block;                                  *)
(*   "criteria"    the line '**Acceptance Criteria**:';                    *)
(*   "blockers"    a line '**Blockers**:' with non-blank text after it on  *)
(*                 the same line: text is what follows the colon;          *)
(*   "line"        any other line, as characters;                          *)
(*   "text"        any other line whose characters decide nothing.         *)

TaskHeader(id) == [kind |-> "task", id |-> id]
LooseTaskHeader == [kind |-> "task_loose"]
CriteriaHeading == [kind |-> "criteria"]
BlockersLine(text) == [kind |-> "blockers", text |-> text]
CharLine(chars) == [kind |-> "line", chars |-> chars]

\* re.finditer(task_pattern, task_md, re.MULTILINE)
task_matches(task_md) ==
    SelectSeq(Indices(task_md), LAMBDA i : task_md[i].kind = "task")

\* re.search(r'### Task \d+\.\d+:', task_md[match.end():])
next_task(task_md, m) ==
    LET later == {j \in (m + 1)..Len(task_md) :
                     task_md[j].kind \in {"task", "task_loose"}}
    IN  IF later = {} THEN 0 ELSE Min(later)

\* task_md[task_start:task_end]
task_section(task_md, m) ==
    SubSeq(task_md, m,
           (IF next_task(task_md, m) # 0
            THEN next_task(task_md, m) ELSE Len(task_md) + 1) - 1)

\* one repetition of the group (?:- \[.\] .+\n)
criteria_line(l) ==
    /\ l.kind = "line"
    /\ Len(l.chars) >= 7
    /\ SubSeq(l.chars, 1, 3) = <<"-", " ", "[">>
    /\ SubSeq(l.chars, 5, 6) = <<"]", " ">>

\* the lines of group 1 of the first match of
\* r'\*\*Acceptance Criteria\*\*:\n((?:- \[.\] .+\n)+)', <<>> for no match
criteria_section(section) ==
    LET starts == {i \in 1..(Len(section) - 1) :
                      /\ section[i].kind = "criteria"
                      /\ criteria_line(section[i + 1])}
    IN  IF starts = {}
        THEN <<>>
        ELSE LET i    == Min(starts)
                 stop == {j \in (i + 1)..Len(section) : ~criteria_line(section[j])}
                 last == IF stop = {} THEN Len(section) ELSE Min(stop) - 1
             IN  [k \in 1..(last - i) |-> section[i + k].chars]

\* a faulty variant: the letter is looked for in the whole line
checked_anywhere(line) == Contains(line, "x")

\* 'x' in line[:6]
checked(line) == Contains(SliceTo(line, 6), "x")

\* line.split('] ', 1)[1].strip() if '] ' in line else line
criterion(line) ==
    IF Find(line, <<"]", " ">>) # 0
    THEN Strip(SliceFrom(line, Find(line, <<"]", " ">>) + 1))
    ELSE line

\* the loop over criteria_section.group(1).split('\n')
acceptance_criteria(section) ==
    LET kept == SelectSeq(criteria_section(section),
                          LAMBDA line : StartsWith(Strip(line), <<"-", " ", "[">>))
    IN  [i \in 1..Len(kept) |->
            [criterion |-> criterion(kept[i]), completed |-> checked(kept[i])]]

NoneLiteral == <<"N", "o", "n", "e">>

\* blockers_match.group(1).strip() if blockers_match else "None"
blockers(section) ==
    LET found == SelectSeq(section, LAMBDA l : l.kind = "blockers")
    IN  IF found = <<>> THEN NoneLiteral ELSE Strip(Head(found).text)

\* a faulty variant: the text is kept whatever it is
blockers_field_kept(b) == PyStr(b)

\* blockers if blockers != "None" else None
blockers_field(b) == IF b # NoneLiteral THEN PyStr(b) ELSE PyNone

task_data(task_md, m) ==
    [id                  |-> task_md[m].id,
     acceptance_criteria |-> acceptance_criteria(task_section(task_md, m)),
     blockers            |-> blockers_field(blockers(task_section(task_md, m)))]

parse_task_md(task_md, now) ==
    LET ms == task_matches(task_md)
    IN  [sprint |-> [last_updated |-> now],
         tasks  |-> [k \in 1..Len(ms) |-> task_data(task_md, ms[k])]]

----------------------------------------------------------------------------
(* parse_completed_tasks_md.                                               *)
(*                                                                         *)
(* Lines of COMPLETED_TASKS.md: "task" and "task_loose" as above (the      *)
(* eight-group task_pattern), "deliverables_heading" for the line          *)
(* '**Key Deliverables**:', "line" and "text".                             *)
(* The three characters of the marker in the source pattern are U+201A,    *)
(* U+00FA and U+00D6; U+2705 is the check mark.                            *)

KeyDeliverablesHeading == [kind |-> "deliverables_heading"]

Marker == <<"U+201A", "U+00FA", "U+00D6">>

completed_matches(completed_md) ==
    SelectSeq(Indices(completed_md), LAMBDA i : completed_md[i].kind = "task")

\* re.search(r'### Task \d+\.\d+:', completed_md[match.end():])
next_completed_task(completed_md, m) ==
    LET later == {j \in (m + 1)..Len(completed_md) :
                     completed_md[j].kind \in {"task", "task_loose"}}
    IN  IF later = {} THEN 0 ELSE Min(later)

completed_section(completed_md, m) ==
    SubSeq(completed_md, m,
           (IF next_completed_task(completed_md, m) # 0
            THEN next_completed_task(completed_md, m)
            ELSE Len(completed_md) + 1) - 1)

\* one repetition of the group (?:- <marker> .+\n)
deliv_line(l) ==
    /\ l.kind = "line"
    /\ Len(l.chars) >= Len(Marker) + 4
    /\ StartsWith(l.chars, <<"-", " ">> \o Marker \o <<" ">>)

\* the lines of group 1 of the first match of
\* r'\*\*Key Deliverables\*\*:\n((?:- <marker> .+\n)+)', <<>> for no match
deliv_match(section) ==
    LET starts == {i \in 1..(Len(section) - 1) :
                      /\ section[i].kind = "deliverables_heading"
                      /\ deliv_line(section[i + 1])}
    IN  IF starts = {}
        THEN <<>>
        ELSE LET i    == Min(starts)
                 stop == {j \in (i + 1)..Len(section) : ~deliv_line(section[j])}
                 last == IF stop = {} THEN Len(section) ELSE Min(stop) - 1
             IN  [k \in 1..(last - i) |-> section[i + k].chars]

\* [line.strip()[4:].strip() for line in ... if line.strip()]
completed_deliverables(section) ==
    LET kept == SelectSeq(deliv_match(section), LAMBDA line : Strip(line) # <<>>)
    IN  [i \in 1..Len(kept) |-> Strip(SliceFrom(Strip(kept[i]), 4))]

completed_task_data(completed_md, m) ==
    [id           |-> completed_md[m].id,
     deliverables |-> completed_deliverables(completed_section(completed_md, m))]

parse_completed_tasks_md(completed_md, now) ==
    LET ms == completed_matches(completed_md)
    IN  [project |-> [last_updated |-> now],
         tasks   |-> [k \in 1..Len(ms) |->
                         completed_task_data(completed_md, ms[k])]]

----------------------------------------------------------------------------
(* main(): three pipelines, each "print, try: parse, open, dump, print;    *)
(* except Exception: print", then the closing lines.                       *)

Pipelines == 1..3

\* Path('.autoflow/<NAME>.md') in the three extractors
SrcPath(i) ==
    CASE i = 1 -> ".autoflow/SPRINTS.md"
      [] i = 2 -> ".autoflow/TASK.md"
      [] i = 3 -> ".autoflow/COMPLETED_TASKS.md"

\* a faulty variant: every pipeline writes the first pipeline's file
DstPathCopied(i) == ".autoflow/SPRINTS.yml"

\* open('.autoflow/<NAME>.yml', 'w') in the three pipelines
DstPath(i) ==
    CASE i = 1 -> ".autoflow/SPRINTS.yml"
      [] i = 2 -> ".autoflow/TASK.yml"
      [] i = 3 -> ".autoflow/COMPLETED_TASKS.yml"

Sources == {".autoflow/SPRINTS.md", ".autoflow/TASK.md", ".autoflow/COMPLETED_TASKS.md"}

Destinations ==
    {".autoflow/SPRINTS.yml", ".autoflow/TASK.yml", ".autoflow/COMPLETED_TASKS.yml"}

Paths == Sources \cup Destinations

NoFile == [exists |-> FALSE]
File(content) == [exists |-> TRUE, content |-> content]

\* the extractor of pipeline i, applied to the text of its document
parse(i, text, now) ==
    CASE i = 1 -> parse_sprints_md(text, now)
      [] i = 2 -> parse_task_md(text, now)
      [] i = 3 -> parse_completed_tasks_md(text, now)

\* the exceptions the statements of a try block raise
Raised == {"FileNotFoundError", "PermissionError", "OSError"}

\* a faulty variant: only a missing document is handled
caught_missing_only(e) == e = "FileNotFoundError"

\* except Exception as e: every exception of Raised is an Exception
caught(e) == e \in Raised

\* where control goes when a statement of the try block raises e
on_raise(e) == IF caught(e) THEN "except" ELSE "crashed"

\* a faulty variant: the file is opened for appending
open_a(f) == IF f.exists THEN f ELSE File(<<>>)

\* open(path, 'w'): the file is created, or truncated
open_w(f) == File(<<>>)

\* the statement after pipeline i
after_pipeline(i) == IF i < 3 THEN "progress" ELSE "complete"

progress_line(i) == [kind |-> "progress", pipe |-> i, msg |-> ""]

success_line(i) == [kind |-> "success", pipe |-> i, msg |-> ""]

\* a faulty variant: the handler prints the success marker
error_line_as_success(i, e) == [kind |-> "success", pipe |-> i, msg |-> e]

\* print(f"   ... Error: {e}\n")
error_line(i, e) == [kind |-> "error", pipe |-> i, msg |-> e]

NewTrace(files) ==
    [called |-> {}, parsed |-> {}, written |-> {}, reads |-> {}, opened |-> {},
     start |-> files]

\* print("... Migrating auto-flow files from Markdown to YAML...\n")
PrintStart ==
    /\ pc = "start"
    /\ out' = Append(out, [kind |-> "start", pipe |-> 0, msg |-> ""])
    /\ pc' = "progress"
    /\ pipe' = 1
    /\ UNCHANGED <<fs, run, clock, data, exc, trace, first>>

\* print("<i>. Migrating <NAME>.md to <NAME>.yml...")
PrintProgress ==
    /\ pc = "progress"
    /\ out' = Append(out, progress_line(pipe))
    /\ pc' = "parse"
    /\ UNCHANGED <<fs, pipe, run, clock, data, exc, trace, first>>

\* <x>_data = parse_<x>_md(): the document is read and parsed
ParseReturns ==
    /\ pc = "parse"
    /\ fs[SrcPath(pipe)].exists
    /\ data' = parse(pipe, fs[SrcPath(pipe)].content, clock)
    /\ clock' = clock + 1
    /\ trace' = [trace EXCEPT !.called = @ \cup {pipe},
                              !.parsed = @ \cup {pipe},
                              !.reads = @ \cup {SrcPath(pipe)}]
    /\ pc' = "open"
    /\ UNCHANGED <<fs, pipe, run, exc, out, first>>

\* parse_<x>_md() raises: read_text() finds no document
ParseRaises ==
    /\ pc = "parse"
    /\ ~fs[SrcPath(pipe)].exists
    /\ exc' = "FileNotFoundError"
    /\ trace' = [trace EXCEPT !.called = @ \cup {pipe},
                              !.reads = @ \cup {SrcPath(pipe)}]
    /\ pc' = on_raise("FileNotFoundError")
    /\ UNCHANGED <<fs, pipe, run, clock, data, out, first>>

\* with open('.autoflow/<NAME>.yml', 'w') as f:
OpenReturns ==
    /\ pc = "open"
    /\ fs' = [fs EXCEPT ![DstPath(pipe)] = open_w(@)]
    /\ trace' = [trace EXCEPT !.opened = @ \cup {<<pipe, DstPath(pipe)>>}]
    /\ pc' = "dump"
    /\ UNCHANGED <<pipe, run, clock, data, exc, out, first>>

\* open() raises: the destination cannot be opened for writing
OpenRaises ==
    /\ pc = "open"
    /\ exc' = "PermissionError"
    /\ pc' = on_raise("PermissionError")
    /\ UNCHANGED <<fs, pipe, run, clock, data, out, trace, first>>

\* yaml.dump(<x>_data, f, ...) returns, and the with block closes the file
DumpReturns ==
    /\ pc = "dump"
    /\ fs' = [fs EXCEPT ![DstPath(pipe)] =
                 File(Append(@.content, [data |-> data, complete |-> TRUE]))]
    /\ trace' = [trace EXCEPT !.written = @ \cup {pipe}]
    /\ pc' = "success"
    /\ UNCHANGED <<pipe, run, clock, data, exc, out, first>>

\* yaml.dump raises: the file holds what was written before the exception, a
\* prefix (possibly empty) of the document, recorded as an incomplete dump
DumpRaises ==
    /\ pc = "dump"
    /\ fs' = [fs EXCEPT ![DstPath(pipe)] =
                 File(Append(@.content, [data |-> data, complete |-> FALSE]))]
    /\ exc' = "OSError"
    /\ pc' = on_raise("OSError")
    /\ UNCHANGED <<pipe, run, clock, data, out, trace, first>>

\* print("   ... <NAME>.yml created successfully\n")
PrintSuccess ==
    /\ pc = "success"
    /\ out' = Append(out, success_line(pipe))
    /\ pc' = after_pipeline(pipe)
    /\ pipe' = IF pipe < 3 THEN pipe + 1 ELSE pipe
    /\ UNCHANGED <<fs, run, clock, data, exc, trace, first>>

\* except Exception as e: print(f"   ... Error: {e}\n")
PrintError ==
    /\ pc = "except"
    /\ out' = Append(out, error_line(pipe, exc))
    /\ pc' = after_pipeline(pipe)
    /\ pipe' = IF pipe < 3 THEN pipe + 1 ELSE pipe
    /\ UNCHANGED <<fs, run, clock, data, exc, trace, first>>

\* print("... Migration complete!") and the next steps
PrintComplete ==
    /\ pc = "complete"
    /\ out' = Append(out, [kind |-> "complete", pipe |-> 0, msg |-> ""])
    /\ pc' = "done"
    /\ UNCHANGED <<fs, pipe, run, clock, data, exc, trace, first>>

\* the script is run again, on the documents as they are
RunAgain ==
    /\ pc = "done"
    /\ run < MaxRuns
    /\ run' = run + 1
    /\ first' = IF run = 1 THEN [fs |-> fs, trace |-> trace] ELSE first
    /\ trace' = NewTrace(fs)
    /\ out' = <<>>
    /\ pc' = "start"
    /\ pipe' = 1
    /\ UNCHANGED <<fs, clock, data, exc>>

\* the documents of the model's runs
SampleDoc(i) ==
    CASE i = 1 -> <<SprintHeader(1, "COMPLETE"), TaskLine("task-1"),
                    SprintHeader(2, "ACTIVE"),
                    DeliverablesBlock(<<<<"1", ".", " ", "a">>>>)>>
      [] i = 2 -> <<TaskHeader("task-2"), CriteriaHeading,
                    CharLine(<<"-", " ", "[", "x", "]", " ", "a">>),
                    BlockersLine(<<" ", "N", "o", "n", "e">>)>>
      [] i = 3 -> <<TaskHeader("task-1"), KeyDeliverablesHeading,
                    CharLine(<<"-", " ">> \o Marker \o <<" ", "a">>)>>

\* a destination written before the first run of the model
OldFile == File(<<[data |-> [old |-> TRUE], complete |-> TRUE]>>)

Init ==
    /\ \E present \in SUBSET Pipelines, old \in {NoFile, OldFile} :
          fs = [p \in Paths |->
                   IF p \in Sources
                   THEN IF \E i \in present : p = SrcPath(i)
                        THEN File(SampleDoc(CHOOSE i \in present : p = SrcPath(i)))
                        ELSE NoFile
                   ELSE old]
    /\ pc = "start"
    /\ pipe = 1
    /\ run = 1
    /\ clock = 0
    /\ data = <<>>
    /\ exc = ""
    /\ out = <<>>
    /\ trace = NewTrace(fs)
    /\ first = [fs |-> fs, trace |-> NewTrace(fs)]

Next ==
    \/ PrintStart
    \/ PrintProgress
    \/ ParseReturns
    \/ ParseRaises
    \/ OpenReturns
    \/ OpenRaises
    \/ DumpReturns
    \/ DumpRaises
    \/ PrintSuccess
    \/ PrintError
    \/ PrintComplete
    \/ RunAgain

Spec == Init /\ [][Next]_vars

----------------------------------------------------------------------------
(* Properties of main(), under Spec.                                       *)

\* the destination each pipeline is documented to create
YmlOf(i) ==
    CASE i = 1 -> ".autoflow/SPRINTS.yml"
      [] i = 2 -> ".autoflow/TASK.yml"
      [] i = 3 -> ".autoflow/COMPLETED_TASKS.yml"

\* the lines a run printed for its pipelines
PipelineLines == SelectSeq(out, LAMBDA l : l.kind \in {"progress", "success", "error"})

Printed(kind, i) == \E k \in 1..Len(out) : out[k].kind = kind /\ out[k].pipe = i

\* C1: whatever exceptions the parse and write steps of the three pipelines
\* raise, the run never ends in an uncaught exception, some statement of
\* main() can run until it is done (for the parse that returns, its guard is
\* written out), and a finished run has called all three
\* extractors, printed all three progress lines and printed the completion
\* banner last.
AllPipelinesAttempted ==
    /\ pc # "crashed"
    /\ pc # "done" =>
          \/ ENABLED PrintStart \/ ENABLED PrintProgress
          \/ (pc = "parse" /\ fs[SrcPath(pipe)].exists) \/ ENABLED ParseRaises
          \/ ENABLED OpenReturns \/ ENABLED OpenRaises
          \/ ENABLED DumpReturns \/ ENABLED DumpRaises
          \/ ENABLED PrintSuccess \/ ENABLED PrintError
          \/ ENABLED PrintComplete
    /\ pc = "done" =>
          /\ trace.called = Pipelines
          /\ \A i \in Pipelines : Printed("progress", i)
          /\ out # <<>> /\ out[Len(out)].kind = "complete"

\* a finished run whose first two pipelines failed and whose third succeeded
AllPipelinesAttemptedWitness ==
    /\ pc = "done"
    /\ Printed("error", 1) /\ Printed("error", 2) /\ Printed("success", 3)
    /\ trace.parsed = {2, 3}

\* C2: the pipeline lines of a run are, in order, for pipeline 1, 2, 3 its
\* progress line and then one status line, success or error; a finished run
\* has all six; a success line is printed only for a pipeline whose parse
\* returned and whose dump returned.
OutputOrdered ==
    /\ \A k \in 1..Len(PipelineLines) :
          /\ PipelineLines[k].pipe = (k + 1) \div 2
          /\ k % 2 = 1 => PipelineLines[k].kind = "progress"
          /\ k % 2 = 0 => PipelineLines[k].kind \in {"success", "error"}
    /\ pc = "done" => Len(PipelineLines) = 6
    /\ \A i \in Pipelines :
          Printed("success", i) => i \in trace.parsed /\ i \in trace.written

\* a finished run with an error line between two success lines
OutputOrderedWitness ==
    /\ pc = "done"
    /\ Printed("success", 1) /\ Printed("error", 2) /\ Printed("success", 3)
    /\ 2 \in trace.parsed

\* the data of a dumped document without its 'last_updated' field
Unstamped(i, d) ==
    IF i = 2
    THEN [d EXCEPT !.sprint.last_updated = 0]
    ELSE [d EXCEPT !.project.last_updated = 0]

\* the content of a destination with the timestamps removed
UnstampedFile(i, f) ==
    [k \in 1..Len(f.content) |->
        [f.content[k] EXCEPT !.data = Unstamped(i, @)]]

\* C9: when a later run of the script has finished, every destination that
\* both the first run and this run created successfully holds the same
\* content as after the first run, timestamps apart; and the run read only
\* the three Markdown documents.
RunTwiceSameOutput ==
    (run >= 2 /\ pc = "done") =>
        /\ trace.reads \subseteq Sources
        /\ \A i \in first.trace.written \cap trace.written :
              UnstampedFile(i, fs[YmlOf(i)]) = UnstampedFile(i, first.fs[YmlOf(i)])

\* a second run that rewrote all three destinations, with new timestamps
RunTwiceSameOutputWitness ==
    /\ run = 2 /\ pc = "done"
    /\ trace.written = Pipelines /\ first.trace.written = Pipelines
    /\ \A i \in Pipelines : fs[YmlOf(i)] # first.fs[YmlOf(i)]

\* C10: within a run, a pipeline opens only its own destination and only
\* after its parse returned; so a destination differs from what it was at
\* the start of the run only if its own pipeline's parse returned, and no
\* Markdown document is ever changed.
DestinationUntouchedOnParseFailure ==
    /\ \A op \in trace.opened : op[1] \in trace.parsed /\ op[2] = YmlOf(op[1])
    /\ \A i \in Pipelines :
          fs[YmlOf(i)] # trace.start[YmlOf(i)] => i \in trace.parsed
    /\ \A p \in Sources : fs[p] = trace.start[p]

\* a finished run whose first parse raised, leaving the existing SPRINTS.yml
\* as it was, while the second pipeline replaced TASK.yml
DestinationUntouchedWitness ==
    /\ pc = "done"
    /\ 1 \in trace.called /\ 1 \notin trace.parsed
    /\ fs[YmlOf(1)] = OldFile
    /\ 2 \in trace.written /\ fs[YmlOf(2)] # OldFile

----------------------------------------------------------------------------
(* The extractors on their own: a document is put in place, the extractor  *)
(* is called once and returns.                                             *)

\* the state of everything but the documents before an extractor is called
BeforeCall ==
    /\ pc = "call"
    /\ pipe = 1
    /\ run = 1
    /\ clock = 0
    /\ data = <<>>
    /\ exc = ""
    /\ out = <<>>
    /\ trace = NewTrace(fs)
    /\ first = [fs |-> fs, trace |-> NewTrace(fs)]

OnlyFile(path, doc) == [p \in Paths |-> IF p = path THEN File(doc) ELSE NoFile]

\* the document extractor i read
Doc(i) == fs[SrcPath(i)].content

\* '<digits>.<spaces><text>', a numbered line of a deliverables section
NumberedLine(d, sp, text) == Repeat("1", d) \o <<".">> \o Repeat(" ", sp) \o text

NumberedLines ==
    {NumberedLine(d, sp, text) :
        d \in 1..MaxDigits, sp \in 0..MaxSpaces, text \in {<<"a">>, <<"a", " ", "b">>}}

SprintLines ==
    {SprintHeader(id, st) : id \in {1, 2}, st \in {"ACTIVE", "COMPLETE"}}
    \cup {TaskLine(t) : t \in {"task-1", "task-2"}}
    \cup {LooseSprintHeader, TextLine}

SprintDocs ==
    SeqsOf(SprintLines, 0, MaxLines)
    \cup {<<SprintHeader(1, "ACTIVE"), DeliverablesBlock(ls)>> :
             ls \in SeqsOf(NumberedLines, 1, MaxDeliverables)}

InitSprints ==
    /\ \E doc \in SprintDocs : fs = OnlyFile(SrcPath(1), doc)
    /\ BeforeCall

\* parse_sprints_md()
CallParseSprintsMd ==
    /\ pc = "call"
    /\ data' = parse_sprints_md(fs[SrcPath(1)].content, clock)
    /\ clock' = clock + 1
    /\ pc' = "returned"
    /\ UNCHANGED <<fs, pipe, run, exc, out, trace, first>>

SpecSprints == InitSprints /\ [][CallParseSprintsMd]_vars

\* '- [<marker>] <text>', a line of an acceptance-criteria block
CheckLine(marker, text) == CharLine(<<"-", " ", "[", marker, "]", " ">> \o text)

TaskSectionLines ==
    {CheckLine(mk, text) : mk \in {" ", "x"}, text \in {<<"a">>, <<"x">>, <<" ", "a">>}}
    \cup {CheckLine("X", <<"a">>), CharLine(<<"-", " ", "[", "x", "]">>)}
    \cup {BlockersLine(t) : t \in {<<" ", "N", "o", "n", "e">>,
                                   <<" ", "N", "o", "n", "e", " ">>,
                                   <<" ", "n", "o", "n", "e">>,
                                   <<" ", "a">>}}
    \cup {CriteriaHeading, TextLine, LooseTaskHeader, TaskHeader("task-2")}

InitTask ==
    /\ \E section \in SeqsOf(TaskSectionLines, 0, MaxSectionLines) :
          fs = OnlyFile(SrcPath(2), <<TaskHeader("task-1")>> \o section)
    /\ BeforeCall

\* parse_task_md()
CallParseTaskMd ==
    /\ pc = "call"
    /\ data' = parse_task_md(fs[SrcPath(2)].content, clock)
    /\ clock' = clock + 1
    /\ pc' = "returned"
    /\ UNCHANGED <<fs, pipe, run, exc, out, trace, first>>

SpecTask == InitTask /\ [][CallParseTaskMd]_vars

\* '- <marker> <text>', a line of a Key Deliverables block
BulletLine(text) == CharLine(<<"-", " ">> \o Marker \o <<" ">> \o text)

CompletedSectionLines ==
    {BulletLine(text) : text \in {<<"a">>, <<"a", " ", "b">>}}
    \cup {CharLine(<<"-", " ", "U+2705", " ", "a">>), CharLine(<<"-", " ", "a">>)}
    \cup {KeyDeliverablesHeading, TextLine, LooseTaskHeader, TaskHeader("task-2")}

InitCompleted ==
    /\ \E section \in SeqsOf(CompletedSectionLines, 0, MaxBullets + 1) :
          fs = OnlyFile(SrcPath(3), <<TaskHeader("task-1")>> \o section)
    /\ BeforeCall

\* parse_completed_tasks_md()
CallParseCompletedTasksMd ==
    /\ pc = "call"
    /\ data' = parse_completed_tasks_md(fs[SrcPath(3)].content, clock)
    /\ clock' = clock + 1
    /\ pc' = "returned"
    /\ UNCHANGED <<fs, pipe, run, exc, out, trace, first>>

SpecCompleted == InitCompleted /\ [][CallParseCompletedTasksMd]_vars

----------------------------------------------------------------------------
(* Properties of parse_sprints_md, under SpecSprints.                      *)

\* the lines of a document at which a recognized sprint header starts
Recognized(doc) == SelectSeq(Indices(doc), LAMBDA i : doc[i].kind = "sprint")

\* the ids of the task lines strictly between lines a and b
TaskIdsBetween(doc, a, b) ==
    LET at == SelectSeq(Indices(doc),
                        LAMBDA i : a < i /\ i < b /\ doc[i].kind = "task")
    IN  [k \in 1..Len(at) |-> [id |-> doc[at[k]].id]]

\* the first line after line a that holds '## Sprint <digits>:', whether a
\* recognized header or not; the line after the last when there is none
NextHeaderText(doc, a) ==
    LET later == {j \in (a + 1)..Len(doc) : doc[j].kind \in {"sprint", "sprint_loose"}}
    IN  IF later = {} THEN Len(doc) + 1 ELSE Min(later)

\* C3 as stated: the task list of each recognized sprint holds the task lines
\* up to the next recognized sprint header, or the end of the document.
SpanEndsAtNextRecognizedHeader ==
    pc = "returned" =>
        LET doc == Doc(1)
            ms  == Recognized(doc)
        IN  /\ Len(data.sprints) = Len(ms)
            /\ \A k \in 1..Len(ms) :
                  data.sprints[k].tasks =
                      TaskIdsBetween(doc, ms[k],
                                     IF k < Len(ms) THEN ms[k + 1] ELSE Len(doc) + 1)

\* C3 amended: the task list of each recognized sprint holds the task lines
\* up to the next line holding '## Sprint <digits>:', recognized or not, or
\* the end of the document; a task line after an unrecognized header is in
\* no list.
SpanEndsAtNextHeaderText ==
    pc = "returned" =>
        LET doc == Doc(1)
            ms  == Recognized(doc)
        IN  /\ Len(data.sprints) = Len(ms)
            /\ \A k \in 1..Len(ms) :
                  data.sprints[k].tasks =
                      TaskIdsBetween(doc, ms[k], NextHeaderText(doc, ms[k]))

\* a recognized sprint with a task line, then an unrecognized header with a
\* task line, then the next recognized sprint
SpanEndsAtNextHeaderTextWitness ==
    /\ pc = "returned"
    /\ Doc(1) = <<SprintHeader(1, "COMPLETE"), TaskLine("task-1"),
                  LooseSprintHeader, TaskLine("task-2")>>
    /\ data.sprints[1].tasks = <<[id |-> "task-1"]>>

RECURSIVE DropDigits(_)
DropDigits(line) ==
    IF line # <<>> /\ Head(line) \in Digits THEN DropDigits(Tail(line)) ELSE line

\* <text> of a numbered line '<digits>.<spaces><text>'
NumberedText(line) == LStrip(Tail(DropDigits(line)))

\* C4 as stated: the deliverables of a sprint are one entry per numbered line
\* of its deliverables section, in order, and the entry of a line
\* '<digits>. <text>', with at least one blank after the dot, is <text>,
\* whatever the number of digits and of blanks.
DeliverablesAreNumberedTexts ==
    (/\ pc = "returned"
     /\ Len(Doc(1)) = 2
     /\ Doc(1)[1].kind = "sprint"
     /\ Doc(1)[2].kind = "deliverables") =>
        LET lines == Doc(1)[2].lines
            got   == data.sprints[1].deliverables
        IN  /\ Len(got) = Len(lines)
            /\ \A i \in 1..Len(lines) :
                  Head(Tail(DropDigits(lines[i]))) \in Whitespace =>
                      got[i] = NumberedText(lines[i])

\* C6: current_sprint is the id of the first sprint record whose status is
\* ACTIVE, and 1 when no record is ACTIVE.
CurrentSprintIsFirstActive ==
    pc = "returned" =>
        LET sp     == data.sprints
            active == {k \in 1..Len(sp) : sp[k].status = "ACTIVE"}
        IN  data.project.current_sprint =
                IF active = {} THEN 1 ELSE sp[Min(active)].id

\* a COMPLETE sprint, then ACTIVE sprint 2, then ACTIVE sprint 1
CurrentSprintWitness ==
    /\ pc = "returned"
    /\ Len(data.sprints) = 3
    /\ data.sprints[1].status = "COMPLETE"
    /\ data.sprints[2].status = "ACTIVE" /\ data.sprints[2].id = 2
    /\ data.sprints[3].status = "ACTIVE" /\ data.sprints[3].id = 1
    /\ data.project.current_sprint = 2

----------------------------------------------------------------------------
(* Properties of parse_task_md, under SpecTask.                            *)

\* the section of the k-th recognized task of the document
SectionOfTask(k) == task_section(Doc(2), task_matches(Doc(2))[k])

\* C7: the criteria of a task are one record per line of its recognized
\* checklist block, in order; a line with 'x' among its first six characters
\* is completed, a line with a blank marker is not, and the criterion is the
\* text after the '] ' that closes the marker, without surrounding blanks.
CriteriaFollowChecklist ==
    pc = "returned" =>
        \A k \in 1..Len(data.tasks) :
            LET block == criteria_section(SectionOfTask(k))
                recs  == data.tasks[k].acceptance_criteria
            IN  /\ Len(recs) = Len(block)
                /\ \A i \in 1..Len(block) :
                      /\ (\E c \in 1..6 : block[i][c] = "x") => recs[i].completed
                      /\ block[i][4] = " " => ~recs[i].completed
                      /\ recs[i].criterion = Strip(SubSeq(block[i], 7, Len(block[i])))

\* '- [x] a' then '- [ ] x': completed, then not completed with criterion 'x'
CriteriaFollowChecklistWitness ==
    /\ pc = "returned"
    /\ Doc(2) = <<TaskHeader("task-1"), CriteriaHeading,
                  CheckLine("x", <<"a">>), CheckLine(" ", <<"x">>)>>
    /\ data.tasks[1].acceptance_criteria =
           <<[criterion |-> <<"a">>, completed |-> TRUE],
             [criterion |-> <<"x">>, completed |-> FALSE]>>

\* C8: a task whose section has no blocker line, or whose blocker line reads
\* 'None', has blockers None; any other blocker text is kept as a string.
\* The blocker line of a section is the first one in it.
BlockersNoneIsNull ==
    pc = "returned" =>
        \A k \in 1..Len(data.tasks) :
            LET lines == SelectSeq(SectionOfTask(k), LAMBDA l : l.kind = "blockers")
                got   == data.tasks[k].blockers
            IN  /\ got # PyStr(NoneLiteral)
                /\ lines = <<>> => got = PyNone
                /\ lines # <<>> =>
                      got = IF Strip(Head(lines).text) = NoneLiteral
                            THEN PyNone
                            ELSE PyStr(Strip(Head(lines).text))

\* a task with '**Blockers**: None' and a task with another blocker text
BlockersNoneIsNullWitness ==
    /\ pc = "returned"
    /\ Doc(2) = <<TaskHeader("task-1"), BlockersLine(<<" ", "N", "o", "n", "e">>),
                  TaskHeader("task-2"), BlockersLine(<<" ", "a">>)>>
    /\ data.tasks[1].blockers = PyNone
    /\ data.tasks[2].blockers = PyStr(<<"a">>)

----------------------------------------------------------------------------
(* Properties of parse_completed_tasks_md, under SpecCompleted.            *)

\* C5 as stated: the deliverables of a completed task are the texts after
\* the marker of the lines of its Key Deliverables block, in order, with
\* nothing of the marker left.
KeyDeliverablesAreBulletTexts ==
    pc = "returned" =>
        \A k \in 1..Len(data.tasks) :
            LET section == completed_section(Doc(3), completed_matches(Doc(3))[k])
                block   == deliv_match(section)
            IN  data.tasks[k].deliverables =
                    [i \in 1..Len(block) |->
                        Strip(SliceFrom(block[i], Len(Marker) + 3))]

====
